---- MODULE Spec2Model ----
(***************************************************************************)
(* A model of simulator/simulator_executor.py: the SimulatorExecutor       *)
(* orchestration pipeline (workspace set-up, checkpointed catalogue,        *)
(* dataset load, cost-bounded batch loop, results aggregation).             *)
(***************************************************************************)
EXTENDS Integers, Sequences, FiniteSets, TLC

(***************************************************************************)
(* Bounds of the model.                                                    *)
(***************************************************************************)
MaxRecords == 4
MaxBatch == 2
MaxLimit == 2
MaxCost == 5
MaxStaticCalls == 2
MaxRuns == 2
MaxResults == 2
MaxOrders == 2
MaxInvokes == 2

(***************************************************************************)
(* Python values.                                                          *)
(***************************************************************************)
None == "None"

\* len(seq) // b for b > 0 (Python floor division on non-negative operands)
FloorDiv(a, b) == a \div b

\* seq[lo:hi] for 0 <= lo <= hi: a Python slice clips at the end of the list
PySlice(seq, lo, hi) ==
    LET top == IF hi < Len(seq) THEN hi ELSE Len(seq)
    IN  IF lo >= top THEN << >> ELSE SubSeq(seq, lo + 1, top)

\* seq[k] is defined for -len(seq) <= k < len(seq); a negative k counts from the end
PyIndexOk(seq, k) == (-Len(seq) <= k) /\ (k < Len(seq))
PyIndex(seq, k) == IF k >= 0 THEN seq[k + 1] ELSE seq[Len(seq) + k + 1]

\* sub in s, for Python strings held as sequences of characters
Contains(sub, s) ==
    \E k \in 0..(Len(s) - Len(sub)) : SubSeq(s, k + 1, k + Len(sub)) = sub

(***************************************************************************)
(* The workspace on disk.                                                  *)
(***************************************************************************)
Root == "root"
SubAreas == {"policies_graph", "datasets", "experiments"}
ArtifactPath == "policies_graph/descriptions_generator.pickle"
GraphLog == "policies_graph/graph.log"
DatasetLog == "datasets/dataset.log"
FilePaths == {ArtifactPath, GraphLog, DatasetLog, "policies_graph/other.pickle"}

CatalogueConfigs == {"cfgA", "cfgB"}
ExperimentNames == {"dataset__t1", "dataset__t2"}
ExperimentFiles == {"experiment.log", "prompt.txt", "config.yaml", "results.csv"}

VARIABLES
    dirs,            \* the directories that exist among the root and the sub-areas
    files,           \* the files that exist under the sub-areas, with their content
    experiments,     \* the experiment directories, each with its files and report rows
    stored,          \* the records the dataset handler yields on load
    config,          \* the configuration passed to the constructor
    pc,              \* where the executor is
    error,           \* the exception that ended the run, if any
    description_generator_path,
    descriptions_generator,
    records,
    dataset_path,    \* load_dataset's local: the path handed to the dataset handler
    experiment_dir,
    i,
    total_cost,
    all_res,
    log_target,      \* the file the process-wide logger writes to
    calls,           \* run_events invocations of this run: batch, results, cost,
                     \* and whether the call raised
    gate_fired,      \* the loop was left through the cost-limit break
    gen_calls,       \* generate_policies_graph invocations of this run
    dump_calls,      \* pickle.dump invocations of this run
    load_calls,      \* pickle.load invocations of this run
    analyzed,        \* the result lists analyze_results was invoked with
    sof,             \* the latest set_output_folder call: how many in a row, what it
                     \* created, what it returned
    runs,            \* executor runs started on this workspace
    cached,          \* the artifact file existed when this run started
    peer,            \* a second process constructing an executor on the workspace
    tool             \* the retail orders data and the latest call of the
                     \* modify_pending_order_address tool on it

vars == << dirs, files, experiments, stored, config, pc, error,
           description_generator_path, descriptions_generator, records,
           dataset_path, experiment_dir, i, total_cost, all_res, log_target, calls,
           gate_fired, gen_calls, dump_calls, load_calls, analyzed, sof, runs,
           cached, peer, tool >>

fsVars == << dirs, files, experiments, stored >>
runVars == << runs, cached >>
loopVars == << i, total_cost, all_res, calls, gate_fired >>
ctorVars == << description_generator_path, descriptions_generator,
               gen_calls, dump_calls, load_calls >>

\* A file's content: what was written, and whether the write ran to its end
Absent == [exists |-> FALSE, data |-> None, complete |-> FALSE]
Written(data) == [exists |-> TRUE, data |-> data, complete |-> TRUE]
\* open(path, 'wb') creates the file, or truncates it, before anything is written
Opened == [exists |-> TRUE, data |-> None, complete |-> FALSE]

\* os.path.isfile(path)
IsFile(f, path) == f[path].exists

NoExperiment == [exists |-> FALSE, files |-> {}, rows |-> << >>]

(***************************************************************************)
(* set_output_folder                                                       *)
(***************************************************************************)
\* os.makedirs(p): raises FileExistsError when p exists
MakeDirs(d, p) ==
    IF p \in d THEN [dirs |-> d, ok |-> FALSE]
    ELSE [dirs |-> d \cup {p}, ok |-> TRUE]

\* if not os.path.exists(p): os.makedirs(p)
EnsureDir(st, p) ==
    IF (~st.ok) \/ (p \in st.dirs) THEN st ELSE MakeDirs(st.dirs, p)

\* set_output_folder without lines 139-140
MutSkipExperiments(d, f) ==
    LET s0 == [dirs |-> d, ok |-> TRUE]
        s1 == EnsureDir(s0, Root)
        s2 == EnsureDir(s1, "policies_graph")
        s3 == EnsureDir(s2, "datasets")
    IN  [dirs |-> s3.dirs, ok |-> s3.ok,
         ret  |-> IF IsFile(f, ArtifactPath) THEN ArtifactPath ELSE None]

\* set_output_folder without lines 141-142
MutNoCheckpoint(d, f) ==
    LET s0 == [dirs |-> d, ok |-> TRUE]
        s1 == EnsureDir(s0, Root)
        s2 == EnsureDir(s1, "policies_graph")
        s3 == EnsureDir(s2, "datasets")
        s4 == EnsureDir(s3, "experiments")
    IN  [dirs |-> s4.dirs, ok |-> s4.ok, ret |-> None]

\* set_output_folder testing the catalogue directory at line 141, not the file
MutPathFromDir(d, f) ==
    LET s0 == [dirs |-> d, ok |-> TRUE]
        s1 == EnsureDir(s0, Root)
        s2 == EnsureDir(s1, "policies_graph")
        s3 == EnsureDir(s2, "datasets")
        s4 == EnsureDir(s3, "experiments")
    IN  [dirs |-> s4.dirs, ok |-> s4.ok,
         ret  |-> IF "policies_graph" \in d THEN ArtifactPath ELSE None]

set_output_folder(d, f) ==
    LET s0 == [dirs |-> d, ok |-> TRUE]
        s1 == EnsureDir(s0, Root)
        s2 == EnsureDir(s1, "policies_graph")
        s3 == EnsureDir(s2, "datasets")
        s4 == EnsureDir(s3, "experiments")
    IN  [dirs |-> s4.dirs, ok |-> s4.ok,
         ret  |-> IF IsFile(f, ArtifactPath) THEN ArtifactPath ELSE None]

(***************************************************************************)
(* Dataset records, dialogue results and report rows.                      *)
(***************************************************************************)
\* The record at 1-based position k of a dataset: its identifier is its position
DatasetRecord(k) ==
    [id |-> k, scenario |-> << "scenario", k >>,
     description |-> [expected_behaviour |-> << "expected", k >>,
                      challenge_level |-> << "level", k >>,
                      policies |-> << "policies", k >>]]
DatasetOf(n) == [k \in 1..n |-> DatasetRecord(k)]

\* User-side messages, as sequences of characters
Marker == << "F", "A", "I", "L", "U", "R", "E" >>
MsgDone == << "D", "o", "n", "e" >>
MsgFailure == << "n", "o", " ", "F", "A", "I", "L", "U", "R", "E", ":", "x" >>
MsgLower == << "f", "a", "i", "l", "u", "r", "e" >>
MsgCut == << "F", "A", "I", "L", "U", "R" >>

\* The conversations a result can carry: the user-side messages, first to last
Conversations ==
    { << MsgDone >>, << MsgFailure >>, << MsgFailure, MsgDone >>,
      << MsgDone, MsgFailure >>, << MsgLower, MsgCut >>, << >> }

\* One result of the dialogue manager (r['event_id'], r['res'][...])
Result(event_id, thread, msgs) ==
    [event_id |-> event_id,
     res |-> [thread_id |-> << "thread", thread >>,
              user_messages |-> msgs,
              user_thoughts |-> [k \in 1..Len(msgs) |-> << "thought", k >>]]]

Last(seq) == seq[Len(seq)]

(***************************************************************************)
(* analyze_results                                                         *)
(***************************************************************************)
\* line 116 reading user_messages[0]
MutScoreFirstMessage(r) == ~Contains(Marker, r.res.user_messages[1])

\* line 116 comparing the whole message with the token
MutScoreEquals(r) == ~(Last(r.res.user_messages) = Marker)

\* score = False if 'FAILURE' in r['res']['user_messages'][-1] else True
Score(r) == ~Contains(Marker, Last(r.res.user_messages))

\* The lookups of one loop iteration that can raise IndexError
RowOk(recs, r) ==
    /\ PyIndexOk(recs, r.event_id - 1)
    /\ Len(r.res.user_messages) > 0
    /\ Len(r.res.user_thoughts) > 0

\* cur_row of one loop iteration
Row(recs, r) ==
    LET cur_event == PyIndex(recs, r.event_id - 1)
    IN  [id |-> r.event_id,
         thread_id |-> r.res.thread_id,
         score |-> Score(r),
         reason |-> Last(r.res.user_thoughts),
         scenario |-> cur_event.scenario,
         expected_behaviour |-> cur_event.description.expected_behaviour,
         challenge_level |-> cur_event.description.challenge_level,
         policies |-> cur_event.description.policies]

\* lines 113-124 keeping only the first result of each event id
MutDedupRows(recs, results) ==
    LET kept[k \in 0..Len(results)] ==
            IF k = 0 THEN << >>
            ELSE IF \E j \in 1..(k - 1) : results[j].event_id = results[k].event_id
                 THEN kept[k - 1]
                 ELSE Append(kept[k - 1], Row(recs, results[k]))
    IN  kept[Len(results)]

\* all_rows after the loop, when no iteration raised
AllRows(recs, results) == [k \in 1..Len(results) |-> Row(recs, results[k])]
AllRowsOk(recs, results) == \A k \in 1..Len(results) : RowOk(recs, results[k])

(***************************************************************************)
(* The dialogue manager's run_events, seen from the executor: one result    *)
(* per record of the batch that it completed, and a non-negative cost.      *)
(***************************************************************************)
DialogOutcomes == { << MsgDone >>, << MsgFailure >> }

ResultOf(rec, msgs) == Result(rec.id, rec.id, msgs)

RunEventsResults(batch) ==
    UNION { { [k \in 1..n |-> ResultOf(batch[k], m[k])] :
              m \in [1..n -> DialogOutcomes] } : n \in 0..Len(batch) }

RunEventsCosts == 0..MaxCost

(***************************************************************************)
(* The initial states: a workspace in any state earlier use can have left   *)
(* it in, a configuration, and no executor constructed yet.                 *)
(***************************************************************************)
NoFiles == [p \in FilePaths |-> Absent]
NoExperiments == [e \in ExperimentNames |-> NoExperiment]
NoCall == [n |-> 0, created |-> {}, ret |-> None]
EmptyDir == [exists |-> TRUE, files |-> {}, rows |-> << >>]

Configs ==
    [description_generator : CatalogueConfigs,
     mini_batch_size : 1..MaxBatch,
     cost_limit : 0..MaxLimit]

InitDirs == { d \in SUBSET ({Root} \cup SubAreas) : d # {} => Root \in d }

InitFiles(d) ==
    {NoFiles} \cup
    (IF "policies_graph" \in d
     THEN { [NoFiles EXCEPT ![ArtifactPath] = Written(c), ![GraphLog] = Written("log")] :
            c \in CatalogueConfigs }
     ELSE {})

InitExperiments(d) ==
    {NoExperiments} \cup
    (IF "experiments" \in d
     THEN { [NoExperiments EXCEPT !["dataset__t1"] = EmptyDir] }
     ELSE {})

\* No orders data and no tool call
NoTool == [orders |-> << >>, n |-> 0, args |-> None, ret |-> None, updates |-> << >>]

\* No second process
NoPeer == [pc |-> "idle", config |-> None, path |-> None, generator |-> None,
           gen_calls |-> 0, dump_calls |-> 0, load_calls |-> 0, seen |-> None]

NoProcess ==
    /\ pc = "start"
    /\ error = None
    /\ description_generator_path = None
    /\ descriptions_generator = None
    /\ records = << >>
    /\ dataset_path = None
    /\ experiment_dir = None
    /\ i = 0
    /\ total_cost = 0
    /\ all_res = << >>
    /\ log_target = None
    /\ calls = << >>
    /\ gate_fired = FALSE
    /\ gen_calls = 0
    /\ dump_calls = 0
    /\ load_calls = 0
    /\ analyzed = << >>
    /\ sof = NoCall

\* Every dataset and batch configuration, on a workspace that is new or holds
\* a catalogue built earlier
Init ==
    /\ dirs \in {{}, {Root} \cup SubAreas}
    /\ files \in IF dirs = {} THEN {NoFiles}
                 ELSE {NoFiles,
                       [NoFiles EXCEPT ![ArtifactPath] = Written("cfgB"),
                                       ![GraphLog] = Written("log")]}
    /\ experiments = NoExperiments
    /\ stored \in { DatasetOf(n) : n \in 0..MaxRecords }
    /\ config \in { c \in Configs : c.description_generator = "cfgA" }
    /\ runs = 1
    /\ cached = files[ArtifactPath].exists
    /\ NoProcess
    /\ peer = NoPeer
    /\ tool = NoTool

\* Every workspace, with a dataset of at most two records run one at a time
InitWorkspace ==
    /\ dirs \in InitDirs
    /\ files \in InitFiles(dirs)
    /\ experiments \in InitExperiments(dirs)
    /\ stored \in { DatasetOf(n) : n \in 0..2 }
    /\ config \in { c \in Configs : c.mini_batch_size = 1 /\ c.cost_limit = 0 }
    /\ runs = 1
    /\ cached = files[ArtifactPath].exists
    /\ NoProcess
    /\ peer = NoPeer
    /\ tool = NoTool

(***************************************************************************)
(* __init__                                                                *)
(***************************************************************************)
Fail(e) ==
    /\ pc' = "failed"
    /\ error' = e

\* SimulatorExecutor.set_output_folder(output_path), called on its own
StaticSetOutputFolder ==
    /\ pc = "start"
    /\ sof.n < MaxStaticCalls
    /\ LET r == set_output_folder(dirs, files)
       IN  /\ dirs' = r.dirs
           /\ sof' = [n |-> sof.n + 1, created |-> r.dirs \ dirs, ret |-> r.ret]
    /\ UNCHANGED << files, experiments, stored, peer, config, pc, error, records, dataset_path,
                    experiment_dir, log_target, analyzed, runVars, tool >>
    /\ UNCHANGED ctorVars
    /\ UNCHANGED loopVars

\* lines 28-30
Construct ==
    /\ pc = "start"
    /\ LET r == set_output_folder(dirs, files)
       IN  /\ dirs' = r.dirs
           /\ sof' = [n |-> sof.n + 1, created |-> r.dirs \ dirs, ret |-> r.ret]
           /\ description_generator_path' = r.ret
           /\ IF r.ok THEN pc' = "setup_logger" /\ error' = error
                      ELSE Fail("MakedirsError")
    /\ UNCHANGED << files, experiments, stored, peer, config, records, dataset_path, experiment_dir,
                    log_target, analyzed, runVars, tool, descriptions_generator,
                    gen_calls, dump_calls, load_calls >>
    /\ UNCHANGED loopVars

\* lines 31-32
SetupLogger ==
    /\ pc = "setup_logger"
    /\ files' = [files EXCEPT ![GraphLog] = Written("log")]
    /\ log_target' = GraphLog
    /\ sof' = NoCall
    /\ pc' = "catalogue"
    /\ UNCHANGED << dirs, experiments, stored, peer, config, error, records, dataset_path,
                    experiment_dir, analyzed, runVars, tool >>
    /\ UNCHANGED ctorVars
    /\ UNCHANGED loopVars

\* line 33 taking the build branch whatever the path
MutAlwaysBuild(path) == TRUE

\* line 33
MustBuild(path) == path = None

\* lines 34-38
Generate ==
    /\ pc = "catalogue"
    /\ MustBuild(description_generator_path)
    /\ gen_calls' = gen_calls + 1
    /\ \/ /\ descriptions_generator' = config.description_generator
          /\ pc' = "dump_open"
          /\ error' = error
       \/ /\ descriptions_generator' = descriptions_generator
          /\ Fail("CollaboratorError")
    /\ UNCHANGED << experiments, stored, peer, config, records, dataset_path, experiment_dir,
                    log_target, analyzed, runVars, tool, sof, dirs, files,
                    description_generator_path, dump_calls, load_calls >>
    /\ UNCHANGED loopVars

\* line 40 opening another file name
MutDumpElsewhere == "policies_graph/other.pickle"

\* lines 39-40: the path the artifact is written to
DumpPath == ArtifactPath

\* line 40: open(..., 'wb')
DumpOpen ==
    /\ pc = "dump_open"
    /\ files' = [files EXCEPT ![DumpPath] = Opened]
    /\ pc' = "dump_write"
    /\ UNCHANGED << dirs, experiments, stored, peer, config, error, records, dataset_path,
                    experiment_dir, log_target, analyzed, runVars, tool, sof >>
    /\ UNCHANGED ctorVars
    /\ UNCHANGED loopVars

\* line 39: pickle.dump
DumpWrite ==
    /\ pc = "dump_write"
    /\ files' = [files EXCEPT ![DumpPath] = Written(descriptions_generator)]
    /\ dump_calls' = dump_calls + 1
    /\ pc' = "finish_init"
    /\ UNCHANGED << dirs, experiments, stored, peer, config, error, records, dataset_path,
                    experiment_dir, log_target, analyzed, runVars, tool, sof,
                    description_generator_path, descriptions_generator,
                    gen_calls, load_calls >>
    /\ UNCHANGED loopVars

\* lines 41-43: pickle.load raises on a file that was not written to its end
Load ==
    /\ pc = "catalogue"
    /\ ~MustBuild(description_generator_path)
    /\ load_calls' = load_calls + 1
    /\ IF files[ArtifactPath].exists /\ files[ArtifactPath].complete
       THEN /\ descriptions_generator' = files[ArtifactPath].data
            /\ pc' = "finish_init"
            /\ error' = error
       ELSE /\ descriptions_generator' = descriptions_generator
            /\ Fail("UnpicklingError")
    /\ UNCHANGED << experiments, stored, peer, config, records, dataset_path, experiment_dir,
                    log_target, analyzed, runVars, tool, sof, dirs, files,
                    description_generator_path, gen_calls, dump_calls >>
    /\ UNCHANGED loopVars

\* lines 45-51
FinishInit ==
    /\ pc = "finish_init"
    /\ records' = << >>
    /\ pc' = "ready"
    /\ UNCHANGED << dirs, files, experiments, stored, peer, config, error, dataset_path,
                    experiment_dir, log_target, analyzed, runVars, tool, sof >>
    /\ UNCHANGED ctorVars
    /\ UNCHANGED loopVars

(***************************************************************************)
(* load_dataset                                                            *)
(***************************************************************************)
\* The dataset_path argument: a name, the default 'latest', or None
Selectors == {"latest", None, "named.pickle"}

\* get_latest_file(datasets_dir): the latest dataset of the area, None when it has none
GetLatestFileResults == {None, "dataset__t0.pickle"}

\* lines 62-63: 'dataset' + '__' + the time of the call + '.pickle'
NewDatasetName == "dataset__now.pickle"

\* lines 58-64
ResolveDatasetPath(sel, latest) ==
    LET p1 == IF sel = "latest" THEN latest ELSE sel
        p2 == IF p1 = None THEN NewDatasetName ELSE p1
    IN  << "datasets", p2 >>

\* load_dataset without line 65
MutNoRedirect(f, cur) == [files |-> f, target |-> cur]

\* line 65: update_logger_file(os.path.join(datasets_dir, 'dataset.log'))
RedirectToDatasetLog(f, cur) ==
    [files |-> [f EXCEPT ![DatasetLog] = Written("log")], target |-> DatasetLog]

\* lines 58-65: load_dataset up to its call of the dataset handler
EnterLoadDataset(sel) ==
    /\ \E latest \in GetLatestFileResults :
          dataset_path' = ResolveDatasetPath(sel, latest)
    /\ LET r == RedirectToDatasetLog(files, log_target)
       IN  /\ files' = r.files
           /\ log_target' = r.target

\* The executor is in load_dataset, at line 66
HandlerLoadPcs == {"handler_load", "handler_load_implicit"}

load_dataset ==
    /\ pc = "ready"
    /\ \E sel \in Selectors : EnterLoadDataset(sel)
    /\ pc' = "handler_load"
    /\ UNCHANGED << dirs, experiments, stored, peer, config, error, records,
                    experiment_dir, analyzed, runVars, tool, sof >>
    /\ UNCHANGED ctorVars
    /\ UNCHANGED loopVars

\* line 66: self.dataset_handler.load_dataset(dataset_path), and the return
HandlerLoad ==
    /\ pc \in HandlerLoadPcs
    /\ records' = stored
    /\ dataset_path' = None
    /\ pc' = IF pc = "handler_load" THEN "loaded" ELSE "mkdir"
    /\ UNCHANGED << dirs, files, experiments, stored, peer, config, error,
                    experiment_dir, log_target, analyzed, runVars, tool, sof >>
    /\ UNCHANGED ctorVars
    /\ UNCHANGED loopVars

(***************************************************************************)
(* run_simulation                                                          *)
(***************************************************************************)
\* lines 72-74: an empty dataset is loaded first, by self.load_dataset()
RunSimulation ==
    /\ pc \in {"ready", "loaded"}
    /\ IF Len(records) = 0
       THEN /\ EnterLoadDataset("latest")
            /\ pc' = "handler_load_implicit"
       ELSE /\ UNCHANGED << log_target, files, dataset_path >>
            /\ pc' = "mkdir"
    /\ UNCHANGED << dirs, experiments, stored, peer, config, error, records,
                    experiment_dir, analyzed, runVars, tool, sof >>
    /\ UNCHANGED ctorVars
    /\ UNCHANGED loopVars

\* line 78 creating the directory as os.makedirs(..., exist_ok=True) does
MutMkdirExistOk(exps, name) ==
    [exps |-> IF exps[name].exists THEN exps ELSE [exps EXCEPT ![name] = EmptyDir],
     ok   |-> TRUE]

\* line 78: os.mkdir(experiment_dir) raises FileExistsError when the directory exists
MkDir(exps, name) ==
    IF exps[name].exists
    THEN [exps |-> exps, ok |-> FALSE]
    ELSE [exps |-> [exps EXCEPT ![name] = EmptyDir], ok |-> TRUE]

\* lines 75-78: the name ends in the time of the call, to the second
MakeExperimentDir ==
    /\ pc = "mkdir"
    /\ \E name \in ExperimentNames :
          LET r == MkDir(experiments, name)
          IN  /\ experiments' = r.exps
              /\ IF r.ok
                 THEN /\ experiment_dir' = name
                      /\ pc' = "snapshot"
                      /\ error' = error
                 ELSE /\ Fail("FileExistsError")
                      /\ experiment_dir' = experiment_dir
    /\ UNCHANGED << dirs, files, stored, peer, config, records, dataset_path, log_target,
                    analyzed, runVars, tool, sof >>
    /\ UNCHANGED ctorVars
    /\ UNCHANGED loopVars

\* lines 79-84
WriteSnapshot ==
    /\ pc = "snapshot"
    /\ log_target' = experiment_dir
    /\ experiments' = [experiments EXCEPT ![experiment_dir].files =
                          @ \cup {"experiment.log", "prompt.txt", "config.yaml"}]
    /\ pc' = "init_dialog"
    /\ UNCHANGED << dirs, files, stored, peer, config, error, records, dataset_path, experiment_dir,
                    analyzed, runVars, tool, sof >>
    /\ UNCHANGED ctorVars
    /\ UNCHANGED loopVars

\* line 91 rounding up
MutCeilBatches(n, b) == (n + b - 1) \div b

\* line 91
NumBatch(n, b) == FloorDiv(n, b)

num_batch == NumBatch(Len(records), config.mini_batch_size)

\* lines 87-94
InitDialog ==
    /\ pc = "init_dialog"
    /\ all_res' = << >>
    /\ total_cost' = 0
    /\ i' = 0
    /\ pc' = "loop"
    /\ UNCHANGED << dirs, files, experiments, stored, peer, config, error, records, dataset_path,
                    experiment_dir, log_target, analyzed, runVars, tool, sof, calls,
                    gate_fired >>
    /\ UNCHANGED ctorVars

\* line 96 with >=
MutGateAtLimit(total, limit) == total >= limit

\* line 96 never true
MutNoGate(total, limit) == FALSE

\* line 96
OverLimit(total, limit) == total > limit

\* lines 102-103 slicing from i, not from i * mini_batch_size
MutSliceOverlap(recs, k, b) == PySlice(recs, k, k + b)

\* lines 102-103: records[i * mini_batch_size:(i + 1) * mini_batch_size]
BatchSlice(recs, k, b) == PySlice(recs, k * b, (k + 1) * b)

Ids(batch) == [k \in 1..Len(batch) |-> batch[k].id]

\* line 104 left out
MutDropResults(acc, res) == acc

\* line 104: all_res.extend(res)
Extend(acc, res) == acc \o res

\* line 105 assigning, not adding
MutLastCostOnly(total, cost) == cost

\* line 105: total_cost += cost
AddCost(total, cost) == total + cost

\* lines 102-105 inside a try block whose handler goes on to the next batch
MutContinueAfterRaise(e) ==
    /\ i' = i + 1
    /\ UNCHANGED << pc, error, all_res, total_cost >>

\* lines 95-107 have no try block: an exception raised by run_events leaves
\* run_simulation at once, with the locals of the loop as they were
BatchRaised(e) ==
    /\ Fail(e)
    /\ UNCHANGED << all_res, total_cost, i >>

\* lines 95-96, 101-105: one iteration that runs its batch
RunBatch ==
    /\ pc = "loop"
    /\ i < num_batch
    /\ ~OverLimit(total_cost, config.cost_limit)
    /\ LET batch == BatchSlice(records, i, config.mini_batch_size)
       IN  \/ \E res \in RunEventsResults(batch), cost \in RunEventsCosts :
                 /\ all_res' = Extend(all_res, res)
                 /\ total_cost' = AddCost(total_cost, cost)
                 /\ calls' = Append(calls, [batch |-> Ids(batch), results |-> res,
                                            cost |-> cost, before |-> total_cost,
                                            raised |-> FALSE])
                 /\ i' = i + 1
                 /\ UNCHANGED << pc, error >>
           \/ /\ calls' = Append(calls, [batch |-> Ids(batch), results |-> << >>,
                                         cost |-> 0, before |-> total_cost,
                                         raised |-> TRUE])
              /\ BatchRaised("CollaboratorError")
    /\ UNCHANGED << dirs, files, experiments, stored, peer, config, records, dataset_path,
                    experiment_dir, log_target, analyzed, runVars, tool, sof, gate_fired >>
    /\ UNCHANGED ctorVars

\* lines 95-100: the iteration that finds the cost limit exceeded
CostBreak ==
    /\ pc = "loop"
    /\ i < num_batch
    /\ OverLimit(total_cost, config.cost_limit)
    /\ gate_fired' = TRUE
    /\ pc' = "analyze"
    /\ UNCHANGED << dirs, files, experiments, stored, peer, config, error, records, dataset_path,
                    experiment_dir, log_target, analyzed, runVars, tool, sof, i, total_cost,
                    all_res, calls >>
    /\ UNCHANGED ctorVars

\* line 95: range(num_batch) is exhausted
LoopEnd ==
    /\ pc = "loop"
    /\ i >= num_batch
    /\ pc' = "analyze"
    /\ UNCHANGED << dirs, files, experiments, stored, peer, config, error, records, dataset_path,
                    experiment_dir, log_target, analyzed, runVars, tool, sof >>
    /\ UNCHANGED ctorVars
    /\ UNCHANGED loopVars

\* lines 107, 109-126
analyze_results ==
    /\ pc = "analyze"
    /\ analyzed' = Append(analyzed, all_res)
    /\ IF AllRowsOk(records, all_res)
       THEN /\ experiments' = [experiments EXCEPT
                                  ![experiment_dir].files = @ \cup {"results.csv"},
                                  ![experiment_dir].rows = AllRows(records, all_res)]
            /\ pc' = "done"
            /\ error' = error
       ELSE /\ experiments' = experiments
            /\ Fail("IndexError")
    /\ UNCHANGED << dirs, files, stored, peer, config, records, dataset_path, experiment_dir,
                    log_target, runVars, tool, sof >>
    /\ UNCHANGED ctorVars
    /\ UNCHANGED loopVars

(***************************************************************************)
(* A run that is interrupted, and the caller running the executor again on  *)
(* the same workspace.                                                      *)
(***************************************************************************)
Running == pc \notin {"start", "done", "failed"}

Interrupt ==
    /\ Running
    /\ Fail("Interrupted")
    /\ UNCHANGED << dirs, files, experiments, stored, peer, config, records, dataset_path,
                    experiment_dir, log_target, analyzed, runVars, tool, sof >>
    /\ UNCHANGED ctorVars
    /\ UNCHANGED loopVars

Restart ==
    /\ pc = "failed"
    /\ runs < MaxRuns
    /\ runs' = runs + 1
    /\ cached' = files[ArtifactPath].exists
    /\ \E c \in CatalogueConfigs :
          config' = [config EXCEPT !.description_generator = c]
    /\ pc' = "start"
    /\ error' = None
    /\ description_generator_path' = None
    /\ descriptions_generator' = None
    /\ records' = << >>
    /\ dataset_path' = None
    /\ experiment_dir' = None
    /\ i' = 0
    /\ total_cost' = 0
    /\ all_res' = << >>
    /\ log_target' = None
    /\ calls' = << >>
    /\ gate_fired' = FALSE
    /\ gen_calls' = 0
    /\ dump_calls' = 0
    /\ load_calls' = 0
    /\ analyzed' = << >>
    /\ sof' = NoCall
    /\ UNCHANGED fsVars
    /\ UNCHANGED << peer, tool >>

Next ==
    \/ StaticSetOutputFolder
    \/ Construct
    \/ SetupLogger
    \/ Generate
    \/ DumpOpen
    \/ DumpWrite
    \/ Load
    \/ FinishInit
    \/ load_dataset
    \/ HandlerLoad
    \/ RunSimulation
    \/ MakeExperimentDir
    \/ WriteSnapshot
    \/ InitDialog
    \/ RunBatch
    \/ CostBreak
    \/ LoopEnd
    \/ analyze_results

Spec == Init /\ [][Next]_vars

NextRestart == Next \/ Interrupt \/ Restart

SpecWorkspace == InitWorkspace /\ [][NextRestart]_vars

(***************************************************************************)
(* Two processes constructing an executor on the same workspace. The        *)
(* second one runs the same __init__, on its own locals, against the same   *)
(* directories and files; it is the one that calls set_output_folder last.  *)
(***************************************************************************)
procVars == << experiments, stored, config, pc, error, records, dataset_path,
               experiment_dir, log_target, analyzed, sof >>

\* A second process that has not called __init__ yet
PeerAtStart(c) == [NoPeer EXCEPT !.pc = "start", !.config = c]

\* lines 28-32 in the second process
PeerConstruct ==
    /\ peer.pc = "start"
    /\ pc # "start"
    /\ LET r == set_output_folder(dirs, files)
       IN  /\ dirs' = r.dirs
           /\ files' = [files EXCEPT ![GraphLog] = Written("log")]
           /\ peer' = [peer EXCEPT !.pc = "catalogue", !.path = r.ret, !.seen = pc]
    /\ UNCHANGED << procVars, runVars, tool >>
    /\ UNCHANGED ctorVars
    /\ UNCHANGED loopVars

\* lines 34-38 in the second process
PeerGenerate ==
    /\ peer.pc = "catalogue"
    /\ MustBuild(peer.path)
    /\ \/ peer' = [peer EXCEPT !.pc = "dump_open", !.generator = peer.config,
                                !.gen_calls = @ + 1]
       \/ peer' = [peer EXCEPT !.pc = "failed", !.gen_calls = @ + 1]
    /\ UNCHANGED << dirs, files, procVars, runVars, tool >>
    /\ UNCHANGED ctorVars
    /\ UNCHANGED loopVars

\* line 40 in the second process
PeerDumpOpen ==
    /\ peer.pc = "dump_open"
    /\ files' = [files EXCEPT ![DumpPath] = Opened]
    /\ peer' = [peer EXCEPT !.pc = "dump_write"]
    /\ UNCHANGED << dirs, procVars, runVars, tool >>
    /\ UNCHANGED ctorVars
    /\ UNCHANGED loopVars

\* line 39 in the second process
PeerDumpWrite ==
    /\ peer.pc = "dump_write"
    /\ files' = [files EXCEPT ![DumpPath] = Written(peer.generator)]
    /\ peer' = [peer EXCEPT !.pc = "done", !.dump_calls = @ + 1]
    /\ UNCHANGED << dirs, procVars, runVars, tool >>
    /\ UNCHANGED ctorVars
    /\ UNCHANGED loopVars

\* lines 41-43 in the second process
PeerLoad ==
    /\ peer.pc = "catalogue"
    /\ ~MustBuild(peer.path)
    /\ IF files[ArtifactPath].exists /\ files[ArtifactPath].complete
       THEN peer' = [peer EXCEPT !.pc = "done", !.generator = files[ArtifactPath].data,
                                 !.load_calls = @ + 1]
       ELSE peer' = [peer EXCEPT !.pc = "failed", !.load_calls = @ + 1]
    /\ UNCHANGED << dirs, files, procVars, runVars, tool >>
    /\ UNCHANGED ctorVars
    /\ UNCHANGED loopVars

InitRace ==
    /\ dirs \in {{}, {Root} \cup SubAreas}
    /\ files \in IF dirs = {} THEN {NoFiles}
                 ELSE {NoFiles,
                       [NoFiles EXCEPT ![ArtifactPath] = Written("cfgB"),
                                       ![GraphLog] = Written("log")]}
    /\ experiments = NoExperiments
    /\ stored = DatasetOf(0)
    /\ config = [description_generator |-> "cfgA", mini_batch_size |-> 1,
                 cost_limit |-> 0]
    /\ runs = 1
    /\ cached = files[ArtifactPath].exists
    /\ NoProcess
    /\ peer \in { PeerAtStart(c) : c \in CatalogueConfigs }
    /\ tool = NoTool

NextRace ==
    \/ Construct
    \/ SetupLogger
    \/ Generate
    \/ DumpOpen
    \/ DumpWrite
    \/ Load
    \/ FinishInit
    \/ PeerConstruct
    \/ PeerGenerate
    \/ PeerDumpOpen
    \/ PeerDumpWrite
    \/ PeerLoad

SpecRace == InitRace /\ [][NextRace]_vars

(***************************************************************************)
(* The end-to-end example: 5 records, mini_batch_size 2, cost_limit 10.     *)
(***************************************************************************)
InitExample ==
    /\ dirs \in {{}, {Root} \cup SubAreas}
    /\ files \in IF dirs = {} THEN {NoFiles}
                 ELSE {NoFiles,
                       [NoFiles EXCEPT ![ArtifactPath] = Written("cfgB"),
                                       ![GraphLog] = Written("log")]}
    /\ experiments = NoExperiments
    /\ stored = DatasetOf(5)
    /\ config = [description_generator |-> "cfgA", mini_batch_size |-> 2,
                 cost_limit |-> 10]
    /\ runs = 1
    /\ cached = files[ArtifactPath].exists
    /\ NoProcess
    /\ peer = NoPeer
    /\ tool = NoTool

NextExample ==
    \/ StaticSetOutputFolder
    \/ Construct
    \/ SetupLogger
    \/ Generate
    \/ DumpOpen
    \/ DumpWrite
    \/ Load
    \/ FinishInit
    \/ load_dataset
    \/ HandlerLoad
    \/ RunSimulation
    \/ MakeExperimentDir
    \/ WriteSnapshot
    \/ InitDialog
    \/ RunBatch
    \/ LoopEnd
    \/ analyze_results

SpecExample == InitExample /\ [][NextExample]_vars

(***************************************************************************)
(* analyze_results called on any list of results, on a constructed executor *)
(* whose experiment directory exists.                                       *)
(***************************************************************************)
\* The identifiers a result can carry on a dataset of n records: every
\* position, and two more on either side
EventIds(n) == (-1)..(n + 1)

InitAnalyze ==
    /\ dirs = {Root} \cup SubAreas
    /\ files = [NoFiles EXCEPT ![ArtifactPath] = Written("cfgA"),
                               ![GraphLog] = Written("log"),
                               ![DatasetLog] = Written("log")]
    /\ experiments = [NoExperiments EXCEPT !["dataset__t1"] =
                         [exists |-> TRUE,
                          files |-> {"experiment.log", "prompt.txt", "config.yaml"},
                          rows |-> << >>]]
    /\ stored \in { DatasetOf(n) : n \in 0..MaxRecords }
    /\ config = [description_generator |-> "cfgA", mini_batch_size |-> 1,
                 cost_limit |-> 0]
    /\ runs = 1
    /\ cached = files[ArtifactPath].exists
    /\ pc = "analyze"
    /\ error = None
    /\ description_generator_path = ArtifactPath
    /\ descriptions_generator = "cfgA"
    /\ records = stored
    /\ dataset_path = None
    /\ experiment_dir = "dataset__t1"
    /\ i = 0
    /\ total_cost = 0
    /\ \E n \in 0..MaxResults :
          \E e \in [1..n -> EventIds(Len(stored))], c \in [1..n -> Conversations] :
             all_res = [k \in 1..n |-> Result(e[k], k, c[k])]
    /\ log_target = "dataset__t1"
    /\ calls = << >>
    /\ gate_fired = FALSE
    /\ gen_calls = 0
    /\ dump_calls = 0
    /\ load_calls = 1
    /\ analyzed = << >>
    /\ sof = NoCall
    /\ peer = NoPeer
    /\ tool = NoTool

NextAnalyze == analyze_results

SpecAnalyze == InitAnalyze /\ [][NextAnalyze]_vars

(***************************************************************************)
(* examples/retail/input/tools/modify_pending_order_address.py: the tool    *)
(* ModifyPendingOrderAddress.invoke on the orders table of the retail data. *)
(***************************************************************************)
\* Order statuses, as sequences of characters
StPending == << "p", "e", "n", "d", "i", "n", "g" >>
StCapital == << "P", "e", "n", "d", "i", "n", "g" >>
StUpper == << "P", "E", "N", "D", "I", "N", "G" >>
StDelivered == << "d", "e", "l", "i", "v", "e", "r", "e", "d" >>
StPendingModified == << "p", "e", "n", "d", "i", "n", "g", " ", "(", "m", ")" >>
Statuses == {StPending, StCapital, StUpper, StDelivered, StPendingModified}

\* str.lower(), letter by letter
LowerChar(c) ==
    CASE c = "P" -> "p" [] c = "E" -> "e" [] c = "N" -> "n" [] c = "D" -> "d"
      [] c = "I" -> "i" [] c = "G" -> "g" [] OTHER -> c
Lower(str) == [k \in 1..Len(str) |-> LowerChar(str[k])]

\* line 24 comparing the status as it is stored
MutPendingExact(status) == status = StPending

\* line 24: order["status"].lower() != "pending", negated
IsPending(status) == Lower(status) = StPending

OrderId(k) == << "#W", k >>

\* The address of every order before any call
OldAddress ==
    [address1 |-> "1 Old St", address2 |-> "", city |-> "Oldtown",
     state |-> "CA", country |-> "USA", zip |-> "11111"]

\* One row of the orders table
OrderRow(k, status) ==
    [order_id |-> OrderId(k), user_id |-> << "user", k >>, status |-> status,
     address |-> OldAddress]

\* The orders tables of n rows
OrderTables(n) == { [k \in 1..n |-> OrderRow(k, st[k])] : st \in [1..n -> Statuses] }

\* util.get_dict_json(df, key): the rows as a dictionary keyed by the key column
get_dict_json(rows, key) ==
    [id \in { rows[k][key] : k \in 1..Len(rows) } |->
        rows[CHOOSE k \in 1..Len(rows) : rows[k][key] = id]]

\* util.update_df(df, row, key): the row of that key is written back
update_df(rows, row, key) ==
    [k \in 1..Len(rows) |-> IF rows[k][key] = row[key] THEN row ELSE rows[k]]

\* json.dumps(order)
JsonDumps(order) == [json |-> order]

\* lines 28-35: the dictionary assigned to order["address"]
NewAddress(address1, address2, city, state, country, zip) ==
    [address1 |-> address1, address2 |-> address2, city |-> city,
     state |-> state, country |-> country, zip |-> zip]

\* lines 19-37: the orders data after the call, the update_df calls made and
\* the value returned
Invoke(data, order_id, address1, address2, city, state, country, zip) ==
    LET orders == get_dict_json(data, "order_id")
    IN  IF order_id \notin DOMAIN orders
        THEN [orders |-> data, updates |-> << >>, ret |-> "Error: order not found"]
        ELSE IF ~IsPending(orders[order_id].status)
        THEN [orders |-> data, updates |-> << >>,
              ret |-> "Error: non-pending order cannot be modified"]
        ELSE LET order == [orders[order_id] EXCEPT !.address =
                              NewAddress(address1, address2, city, state, country,
                                         zip)]
             IN  [orders |-> update_df(data, order, "order_id"),
                  updates |-> << order >>,
                  ret |-> JsonDumps(order)]

\* The order ids a call can name on a table of n rows: every row's, and one more
OrderIdArgs(n) == { OrderId(k) : k \in 1..(n + 1) }

invoke ==
    /\ tool.n < MaxInvokes
    /\ \E order_id \in OrderIdArgs(Len(tool.orders)),
          address1 \in {"1 Old St", "2 New St"}, address2 \in {"", "Apt 1"},
          city \in {"Newtown"}, state \in {"NY"}, country \in {"Canada"},
          zip \in {"22222"} :
          LET r == Invoke(tool.orders, order_id, address1, address2, city, state,
                          country, zip)
          IN  tool' = [orders |-> r.orders, n |-> tool.n + 1,
                       args |-> [order_id |-> order_id,
                                 address |-> [address1 |-> address1,
                                              address2 |-> address2, city |-> city,
                                              state |-> state, country |-> country,
                                              zip |-> zip]],
                       ret |-> r.ret, updates |-> r.updates]
    /\ UNCHANGED << dirs, files, procVars, runVars, peer >>
    /\ UNCHANGED ctorVars
    /\ UNCHANGED loopVars

InitOrders ==
    /\ dirs = {}
    /\ files = NoFiles
    /\ experiments = NoExperiments
    /\ stored = DatasetOf(0)
    /\ config = [description_generator |-> "cfgA", mini_batch_size |-> 1,
                 cost_limit |-> 0]
    /\ runs = 1
    /\ cached = FALSE
    /\ NoProcess
    /\ peer = NoPeer
    /\ \E n \in 0..MaxOrders : \E t \in OrderTables(n) : tool = [NoTool EXCEPT !.orders = t]

NextOrders == invoke

SpecOrders == InitOrders /\ [][NextOrders]_vars

(***************************************************************************)
(* What the properties below read off a state.                             *)
(***************************************************************************)
AllAreas == {Root} \cup SubAreas

\* The run got past the batch loop
LoopLeft == pc \in {"analyze", "done"}

\* Every run_events invocation returned one result per record of its batch
OneResultPerRecord == \A k \in 1..Len(calls) : Len(calls[k].results) = Len(calls[k].batch)

\* The cost of the first k batches, and the results of all of them
RECURSIVE CostOfFirst(_)
CostOfFirst(k) == IF k = 0 THEN 0 ELSE CostOfFirst(k - 1) + calls[k].cost

RECURSIVE ResultsOfFirst(_)
ResultsOfFirst(k) == IF k = 0 THEN << >> ELSE ResultsOfFirst(k - 1) \o calls[k].results

\* The identifiers of the records passed to run_events so far
Passed == UNION { { calls[k].batch[j] : j \in 1..Len(calls[k].batch) } : k \in 1..Len(calls) }

\* The report of the run's experiment directory
ReportWritten ==
    /\ experiment_dir # None
    /\ "results.csv" \in experiments[experiment_dir].files
ReportRows == experiments[experiment_dir].rows

(***************************************************************************)
(* C1: with N records and batch size B, a run whose cost gate never fires   *)
(* and whose run_events calls each return one result per record invokes     *)
(* run_events exactly N div B times, collects exactly B * (N div B)         *)
(* results, and never passes one of the last N mod B records.               *)
(***************************************************************************)
C1_FloorBatches ==
    (LoopLeft /\ ~gate_fired /\ OneResultPerRecord) =>
        LET N == Len(records)
            B == config.mini_batch_size
        IN  /\ Len(calls) = N \div B
            /\ Len(all_res) = B * (N \div B)
            /\ \A id \in Passed : id <= N - (N % B)
            /\ \A k \in (N - (N % B) + 1)..N : records[k].id \notin Passed

C1_Witness ==
    /\ pc = "done"
    /\ ~gate_fired
    /\ OneResultPerRecord
    /\ Len(records) = 3
    /\ config.mini_batch_size = 2
    /\ Len(calls) = 1
    /\ Len(all_res) = 2

(***************************************************************************)
(* C2: a batch is started only while the cumulative cost of the completed   *)
(* batches is at most cost_limit, so that once it is strictly greater no    *)
(* batch is started; the collected results are the concatenation of the     *)
(* results of the completed batches; the loop is cut only on a cumulative   *)
(* cost strictly greater than cost_limit, never on one equal to it.         *)
(***************************************************************************)
C2_CostCutoff ==
    /\ \A k \in 1..Len(calls) : CostOfFirst(k - 1) <= config.cost_limit
    /\ all_res = ResultsOfFirst(Len(calls))
    /\ total_cost = CostOfFirst(Len(calls))
    /\ gate_fired => CostOfFirst(Len(calls)) > config.cost_limit
    /\ (LoopLeft /\ ~gate_fired) => i = Len(records) \div config.mini_batch_size

C2_Witness ==
    /\ pc = "done"
    /\ gate_fired
    /\ config.cost_limit > 0
    /\ Len(calls) >= 2
    /\ CostOfFirst(Len(calls) - 1) = config.cost_limit
    /\ Len(all_res) >= 2

(***************************************************************************)
(* C3, as the specification states it: on 5 records with batch size 2,      *)
(* cost limit 10 and batch costs 3, 4, 5, a third batch runs after batches  *)
(* 1 and 2 and brings the cumulative cost to 12, record 5 is never passed   *)
(* to run_events, and the report has 4 rows.                                *)
(***************************************************************************)
ExampleRun ==
    /\ pc = "done"
    /\ OneResultPerRecord
    /\ Len(calls) >= 2
    /\ calls[1].cost = 3
    /\ calls[2].cost = 4

C3_ThirdBatchRuns ==
    ExampleRun =>
        /\ calls[1].before = 0 /\ calls[2].before = 3
        /\ Len(calls) = 3
        /\ calls[3].before = 7
        /\ total_cost = 12
        /\ 5 \notin Passed
        /\ Len(ReportRows) = 4

(***************************************************************************)
(* C3, amended: on that input exactly two batches run, records 1-2 at       *)
(* cumulative cost 0 and records 3-4 at cumulative cost 3; there is no      *)
(* third batch, since 5 div 2 = 2, so the cumulative cost ends at 7; record *)
(* 5 is never passed to run_events, and the report has 4 rows.              *)
(***************************************************************************)
C3_TwoBatchesOnly ==
    /\ Len(calls) <= 2
    /\ records # << >> => Len(records) = 5
    /\ ExampleRun =>
          /\ Len(calls) = 2
          /\ calls[1].batch = << 1, 2 >> /\ calls[1].before = 0
          /\ calls[2].batch = << 3, 4 >> /\ calls[2].before = 3
          /\ total_cost = 7
          /\ ~gate_fired
          /\ 5 \notin Passed
          /\ ReportWritten
          /\ Len(ReportRows) = 4
          /\ \A k \in 1..4 : ReportRows[k].id = k

C3_Witness ==
    /\ ExampleRun
    /\ total_cost = 7
    /\ Len(ReportRows) = 4
    /\ Len(records) = 5

(***************************************************************************)
(* What the workspace properties read off a state.                         *)
(***************************************************************************)
\* __init__ got past the build-or-load decision without raising
Constructed ==
    pc \in {"finish_init", "ready", "handler_load", "handler_load_implicit",
            "loaded", "mkdir", "snapshot", "init_dialog", "loop", "analyze", "done"}

Artifact == files[ArtifactPath]

\* The step is a set_output_folder call
SetOutputFolderStep == sof'.n > sof.n

(***************************************************************************)
(* C4: constructing the executor on a workspace without the artifact file   *)
(* invokes generation once and writes one artifact, at the fixed path;      *)
(* constructing it on a workspace that has the file invokes generation      *)
(* zero times, loads the file and never writes it, whatever configuration   *)
(* the catalogue in the file was built under.                               *)
(***************************************************************************)
C4_BuildOnceOrLoad ==
    /\ [](/\ gen_calls <= 1 /\ dump_calls <= 1 /\ load_calls <= 1
          /\ ~files["policies_graph/other.pickle"].exists
          /\ (Constructed /\ ~cached) =>
                /\ gen_calls = 1 /\ dump_calls = 1 /\ load_calls = 0
                /\ Artifact = Written(config.description_generator)
                /\ descriptions_generator = config.description_generator
          /\ cached =>
                /\ gen_calls = 0 /\ dump_calls = 0
                /\ Constructed =>
                      /\ load_calls = 1
                      /\ descriptions_generator = Artifact.data)
    /\ [][cached => files'[ArtifactPath] = files[ArtifactPath]]_vars

C4_Witness ==
    /\ pc = "ready"
    /\ cached
    /\ runs = 1
    /\ load_calls = 1
    /\ gen_calls = 0
    /\ descriptions_generator = "cfgB"
    /\ config.description_generator = "cfgA"

(***************************************************************************)
(* C5, as the specification states it: a run started after a failed or      *)
(* interrupted run never invokes catalogue generation, wherever the         *)
(* earlier run stopped.                                                     *)
(***************************************************************************)
C5_RestartNeverGenerates == runs >= 2 => gen_calls = 0

(***************************************************************************)
(* C5, amended: a run started after a run that failed or was interrupted    *)
(* once the artifact file existed at the fixed path invokes generation      *)
(* zero times and takes the load path; the artifact file, once it exists,   *)
(* stays, so this covers every failure from the opening of the file on. A   *)
(* run that stopped before that leaves no file, and the next run generates  *)
(* again.                                                                   *)
(***************************************************************************)
C5_RestartLoadsWhenCached ==
    /\ []((runs >= 2 /\ cached) =>
             /\ gen_calls = 0
             /\ dump_calls = 0
             /\ pc \notin {"dump_open", "dump_write"}
             /\ Constructed => load_calls = 1)
    /\ [][/\ Artifact.exists => files'[ArtifactPath].exists
          /\ runs' > runs => (cached' <=> Artifact.exists)]_vars

C5_Witness ==
    /\ runs = 2
    /\ cached
    /\ pc = "ready"
    /\ load_calls = 1
    /\ gen_calls = 0
    /\ dump_calls = 0

(***************************************************************************)
(* C6: the second of two set_output_folder calls in a row creates nothing   *)
(* and changes no file, and returns the artifact path exactly when the      *)
(* artifact file exists.                                                    *)
(***************************************************************************)
C6_SecondCallIdempotent ==
    /\ [](sof.n >= 2 =>
             /\ sof.created = {}
             /\ (sof.ret # None) <=> Artifact.exists
             /\ sof.ret \in {None, ArtifactPath})
    /\ [][(SetOutputFolderStep /\ sof.n >= 1) =>
             /\ dirs' = dirs
             /\ files' = files
             /\ experiments' = experiments]_vars

C6_Witness ==
    /\ sof.n = 2
    /\ sof.ret = ArtifactPath
    /\ sof.created = {}
    /\ pc = "start"

(***************************************************************************)
(* C7: when set_output_folder has returned, the root and the three          *)
(* sub-areas exist, whichever of them existed before; the call leaves what  *)
(* existed as it was and raises nothing; and every later stage runs with    *)
(* all of them in place.                                                    *)
(***************************************************************************)
C7_AreasExist ==
    /\ [](/\ sof.n >= 1 => AllAreas \subseteq dirs
          /\ pc # "start" => AllAreas \subseteq dirs
          /\ error # "MakedirsError")
    /\ [][SetOutputFolderStep =>
             /\ dirs \subseteq dirs'
             /\ sof'.created = AllAreas \ dirs
             /\ files' = files
             /\ experiments' = experiments]_vars

C7_Witness ==
    /\ pc = "setup_logger"
    /\ sof.n = 1
    /\ sof.created = {"experiments"}
    /\ AllAreas \subseteq dirs

(***************************************************************************)
(* What the aggregator properties read off a state.                        *)
(***************************************************************************)
\* The token FAILURE occurs in message s, character by character
HasFailureToken(s) ==
    \E at \in 1..Len(s) :
        /\ at + 6 <= Len(s)
        /\ s[at] = "F" /\ s[at + 1] = "A" /\ s[at + 2] = "I" /\ s[at + 3] = "L"
        /\ s[at + 4] = "U" /\ s[at + 5] = "R" /\ s[at + 6] = "E"

LastUserMessage(r) == r.res.user_messages[Len(r.res.user_messages)]

\* analyze_results was invoked and returned
Analyzed == pc = "done" /\ Len(analyzed) = 1

\* The result's scenario identifier is no 1-based position of a record
OutOfRange(r) == r.event_id \notin 1..Len(records)

(***************************************************************************)
(* C8: the score of each report row is false exactly when the token         *)
(* FAILURE occurs in the last user-side message of the row's result;        *)
(* nothing else of the result, and no earlier message, bears on it.         *)
(***************************************************************************)
C8_ScoreFromLastMessage ==
    Analyzed =>
        /\ ReportWritten
        /\ Len(ReportRows) = Len(analyzed[1])
        /\ \A k \in 1..Len(ReportRows) :
              ReportRows[k].score = ~HasFailureToken(LastUserMessage(analyzed[1][k]))

C8_Witness ==
    /\ Analyzed
    /\ Len(ReportRows) = 2
    /\ analyzed[1][1].res.user_messages = << MsgFailure, MsgDone >>
    /\ ReportRows[1].score = TRUE
    /\ analyzed[1][2].res.user_messages = << MsgDone, MsgFailure >>
    /\ ReportRows[2].score = FALSE

(***************************************************************************)
(* C9: a result whose scenario identifier is outside 1..len(records), 0     *)
(* and negative identifiers included, makes analyze_results raise an        *)
(* indexing error and write no report; it is never given a record's row.    *)
(***************************************************************************)
C9_OutOfRangeIsFatal ==
    (Len(analyzed) = 1 /\ \E k \in 1..Len(analyzed[1]) : OutOfRange(analyzed[1][k])) =>
        /\ pc = "failed"
        /\ error = "IndexError"
        /\ ~ReportWritten

(***************************************************************************)
(* C10: when the cost gate stops the batch loop the run does not fail:      *)
(* analyze_results is invoked once, with the results of the completed       *)
(* batches, and results.csv is written in the run's experiment directory.   *)
(***************************************************************************)
C10_BudgetStopReports ==
    /\ Len(analyzed) <= 1
    /\ gate_fired =>
          /\ LoopLeft
          /\ error = None
          /\ experiment_dir # None /\ experiments[experiment_dir].exists
          /\ AllRowsOk(records, all_res)
          /\ pc = "analyze" => (analyzed = << >> /\ ~ReportWritten)
          /\ pc = "done" =>
                /\ analyzed = << ResultsOfFirst(Len(calls)) >>
                /\ ReportWritten
                /\ Len(ReportRows) = Len(ResultsOfFirst(Len(calls)))
                /\ \A k \in 1..Len(ReportRows) :
                      ReportRows[k].id = ResultsOfFirst(Len(calls))[k].event_id

C10_Witness ==
    /\ gate_fired
    /\ pc = "done"
    /\ Len(analyzed) = 1
    /\ Len(analyzed[1]) >= 1
    /\ Len(analyzed[1]) < Len(records)
    /\ Len(calls) < Len(records) \div config.mini_batch_size
    /\ ReportWritten

(***************************************************************************)
(* C11: when run_events raises while running batch k, the error leaves      *)
(* run_simulation as it was raised and the batch is not tried again, no     *)
(* later batch is started, analyze_results is never invoked and no report   *)
(* is written, although the results of batches 0..k-1 had been collected.   *)
(***************************************************************************)
C11_RaiseAbortsWithoutReport ==
    /\ [](\A k \in 1..Len(calls) :
             calls[k].raised =>
                /\ k = Len(calls)
                /\ pc = "failed"
                /\ error = "CollaboratorError"
                /\ i = k - 1
                /\ all_res = ResultsOfFirst(k - 1)
                /\ total_cost = CostOfFirst(k - 1)
                /\ analyzed = << >>
                /\ experiment_dir # None
                /\ experiments[experiment_dir].files =
                      {"experiment.log", "prompt.txt", "config.yaml"}
                /\ experiments[experiment_dir].rows = << >>)
    /\ [][pc # "failed"]_vars

C11_Witness ==
    /\ pc = "failed"
    /\ error = "CollaboratorError"
    /\ Len(calls) = 2
    /\ calls[2].raised
    /\ calls[2].batch = << 3, 4 >>
    /\ Len(all_res) = 2
    /\ analyzed = << >>
    /\ ~ReportWritten

(***************************************************************************)
(* What the row-order property reads off a state.                          *)
(***************************************************************************)
\* records[e - 1] as Python evaluates it: position e for e >= 1, and counted
\* from the end of the list for e <= 0
RecordOfEvent(e) == records[IF e >= 1 THEN e ELSE Len(records) + e]

(***************************************************************************)
(* C12: analyze_results writes one report row per input result, in the      *)
(* order of the input results, with no sorting, deduplication or grouping:  *)
(* row k carries the id and the thread id of result k and the scenario      *)
(* metadata of records[event_id - 1], also when two results share an event  *)
(* id.                                                                      *)
(***************************************************************************)
C12_RowPerResultInOrder ==
    Analyzed =>
        /\ ReportWritten
        /\ Len(ReportRows) = Len(analyzed[1])
        /\ \A k \in 1..Len(analyzed[1]) :
              LET r == analyzed[1][k]
                  rec == RecordOfEvent(r.event_id)
              IN  /\ ReportRows[k].id = r.event_id
                  /\ ReportRows[k].thread_id = r.res.thread_id
                  /\ ReportRows[k].scenario = rec.scenario
                  /\ ReportRows[k].expected_behaviour = rec.description.expected_behaviour
                  /\ ReportRows[k].challenge_level = rec.description.challenge_level
                  /\ ReportRows[k].policies = rec.description.policies

C12_Witness ==
    /\ Analyzed
    /\ Len(records) = 3
    /\ Len(analyzed[1]) = 2
    /\ analyzed[1][1].event_id = 3
    /\ analyzed[1][2].event_id = 3
    /\ Len(ReportRows) = 2
    /\ ReportRows[1].id = 3 /\ ReportRows[2].id = 3
    /\ ReportRows[1].thread_id # ReportRows[2].thread_id
    /\ ReportRows[2].scenario = << "scenario", 3 >>

(***************************************************************************)
(* C13: the experiment directory of a run is created fresh and is owned by  *)
(* that run alone: when a directory of the run's name already exists under  *)
(* experiments, run_simulation fails at the directory creation, before the  *)
(* log is redirected, before prompt.txt or config.yaml is written and       *)
(* before any batch is started, and the existing directory is left as it    *)
(* was; no run ever changes a directory it did not create.                  *)
(***************************************************************************)
C13_ExperimentDirFresh ==
    /\ [](error = "FileExistsError" =>
             /\ pc = "failed"
             /\ experiment_dir = None
             /\ log_target = DatasetLog
             /\ calls = << >>
             /\ analyzed = << >>)
    /\ [][/\ (pc = "mkdir" /\ pc' = "snapshot") =>
                /\ ~experiments[experiment_dir'].exists
                /\ experiments' = [experiments EXCEPT ![experiment_dir'] = EmptyDir]
          /\ (pc = "mkdir" /\ pc' = "failed") =>
                /\ experiments' = experiments
                /\ log_target' = log_target
                /\ files' = files
          /\ \A name \in ExperimentNames :
                (experiments[name].exists /\ name # experiment_dir') =>
                    experiments'[name] = experiments[name]]_vars

C13_Witness ==
    /\ pc = "failed"
    /\ error = "FileExistsError"
    /\ runs = 2
    /\ Len(records) = 2
    /\ experiments["dataset__t1"].files = {"experiment.log", "prompt.txt", "config.yaml"}
    /\ ~experiments["dataset__t2"].exists
    /\ log_target = DatasetLog

(***************************************************************************)
(* C14: in every execution of load_dataset, whatever the selector and also  *)
(* when run_simulation triggers it on an empty dataset, the process-wide    *)
(* log is redirected to datasets/dataset.log before the dataset handler's   *)
(* load is invoked: the step that brings the executor to the handler's      *)
(* load is the redirection, and records are only ever loaded from there.    *)
(***************************************************************************)
C14_RedirectBeforeLoad ==
    /\ [](pc \in HandlerLoadPcs =>
             /\ log_target = DatasetLog
             /\ files[DatasetLog].exists
             /\ dataset_path # None)
    /\ [][/\ (pc \notin HandlerLoadPcs /\ pc' \in HandlerLoadPcs) =>
                /\ log_target' = DatasetLog
                /\ files'[DatasetLog] = Written("log")
                /\ records' = records
          /\ (pc \in HandlerLoadPcs /\ pc' \notin (HandlerLoadPcs \cup {"failed"})) =>
                /\ log_target = DatasetLog
                /\ log_target' = DatasetLog
                /\ records' = stored
          /\ (records' # records /\ runs' = runs) => pc \in HandlerLoadPcs]_vars

C14_Witness ==
    /\ pc = "mkdir"
    /\ Len(records) = 2
    /\ log_target = DatasetLog
    /\ files[DatasetLog].exists
    /\ dataset_path = None
    /\ ~cached

(***************************************************************************)
(* C15: the batches handed to run_events are consecutive, non-overlapping   *)
(* slices of exactly mini_batch_size records in record order: the k-th      *)
(* invocation, counted from 0, receives records[k*B .. (k+1)*B - 1]; the    *)
(* invocations come one at a time in increasing k; and no record is passed  *)
(* to run_events twice in a run.                                            *)
(***************************************************************************)
C15_ConsecutiveSlices ==
    /\ [](LET B == config.mini_batch_size
          IN  /\ \A k \in 1..Len(calls) :
                    /\ Len(calls[k].batch) = B
                    /\ k * B <= Len(records)
                    /\ \A j \in 1..B :
                          calls[k].batch[j] = records[(k - 1) * B + j].id
              /\ \A k1, k2 \in 1..Len(calls) : \A j1, j2 \in 1..B :
                    calls[k1].batch[j1] = calls[k2].batch[j2] => (k1 = k2 /\ j1 = j2)
              /\ pc \in {"loop", "analyze", "done"} => i = Len(calls))
    /\ [][calls' # calls =>
             /\ pc = "loop"
             /\ Len(calls) = i
             /\ Len(calls') = Len(calls) + 1
             /\ SubSeq(calls', 1, Len(calls)) = calls]_vars

C15_Witness ==
    /\ pc = "done"
    /\ config.mini_batch_size = 2
    /\ Len(records) = 4
    /\ Len(calls) = 2
    /\ calls[1].batch = << 1, 2 >>
    /\ calls[2].batch = << 3, 4 >>

(***************************************************************************)
(* C16: the cost gate is evaluated only between batches: a batch that was   *)
(* started and returned has all of its results appended and its cost added, *)
(* also when that takes total_cost above cost_limit, so the final           *)
(* total_cost may exceed cost_limit; but the cumulative cost of the         *)
(* executed batches without the most recent one is at most cost_limit in    *)
(* every reachable state.                                                   *)
(***************************************************************************)
C16_GateAtBatchBoundaries ==
    /\ \A k \in 1..Len(calls) :
          /\ calls[k].before = CostOfFirst(k - 1)
          /\ calls[k].before <= config.cost_limit
          /\ calls[k].raised => (calls[k].results = << >> /\ calls[k].cost = 0)
    /\ Len(calls) >= 1 =>
          /\ total_cost - calls[Len(calls)].cost <= config.cost_limit
          /\ total_cost = calls[Len(calls)].before + calls[Len(calls)].cost
          /\ Len(all_res) =
                Len(ResultsOfFirst(Len(calls) - 1)) + Len(calls[Len(calls)].results)
          /\ SubSeq(all_res, Len(all_res) - Len(calls[Len(calls)].results) + 1,
                    Len(all_res)) = calls[Len(calls)].results

C16_Witness ==
    /\ pc = "done"
    /\ Len(calls) = 2
    /\ config.mini_batch_size = 2
    /\ calls[1].cost = config.cost_limit
    /\ calls[2].cost = MaxCost
    /\ total_cost > config.cost_limit + 1
    /\ Len(all_res) = 4
    /\ Len(ReportRows) = 4

(***************************************************************************)
(* What the race property reads off a state.                               *)
(***************************************************************************)
\* The second process called set_output_folder while the first was between
\* its own set_output_folder call and the end of its write of the artifact
Overlapped == peer.seen \in {"setup_logger", "catalogue", "dump_open", "dump_write"}

\* The second process has made its build-or-load decision
PeerDecided == peer.pc \notin {"idle", "start"}

(***************************************************************************)
(* C17: the build-or-load decision is a check followed by an act, with      *)
(* nothing guarding the two: each process decides on what it saw when it    *)
(* called set_output_folder; two initialisations that overlap on a          *)
(* workspace without the artifact can both see it absent, both generate and *)
(* both write the fixed-name file, each write replacing whatever the file   *)
(* held; when the initialisations do not overlap the artifact is written    *)
(* at most once.                                                            *)
(***************************************************************************)
C17_UnguardedBuildRace ==
    /\ [](/\ (PeerDecided /\ ~Overlapped) => dump_calls + peer.dump_calls <= 1
          /\ (dump_calls = 1 /\ peer.dump_calls = 1) =>
                /\ Overlapped
                /\ ~cached
                /\ description_generator_path = None /\ peer.path = None
                /\ gen_calls = 1 /\ peer.gen_calls = 1
          /\ cached => (dump_calls = 0 /\ peer.dump_calls = 0))
    /\ [][/\ (peer.pc = "start" /\ peer'.pc # "start") =>
                (peer'.path = None <=> ~Artifact.exists)
          /\ dump_calls' > dump_calls =>
                files'[ArtifactPath] = Written(descriptions_generator)
          /\ peer'.dump_calls > peer.dump_calls =>
                files'[ArtifactPath] = Written(peer.generator)]_vars

C17_Witness ==
    /\ pc = "ready"
    /\ peer.pc = "done"
    /\ ~cached
    /\ gen_calls = 1 /\ peer.gen_calls = 1
    /\ dump_calls = 1 /\ peer.dump_calls = 1
    /\ descriptions_generator = "cfgA"
    /\ peer.generator = "cfgB"
    /\ Artifact = Written("cfgB")

(***************************************************************************)
(* C18: whenever the artifact file exists at the fixed path at the start of *)
(* a run it holds a catalogue that was generated and written to its end:    *)
(* no failure or interruption of an earlier run leaves a file that a later  *)
(* run takes the load path for and that is empty or partly written.         *)
(***************************************************************************)
C18_ArtifactNeverPartial ==
    /\ (pc = "start" /\ Artifact.exists) =>
          /\ Artifact.complete
          /\ Artifact.data \in CatalogueConfigs
    /\ (runs >= 2 /\ cached) => error # "UnpicklingError"

InvokeStep == tool'.n = tool.n + 1

\* The rows of the orders data before the step whose id is the call's order id
TargetRows == { k \in 1..Len(tool.orders) : tool.orders[k].order_id = tool'.args.order_id }

\* The status reads "pending" when upper and lower case are not told apart
PendingAnyCase(status) == status \in {StPending, StCapital, StUpper}

====
